---- MODULE Spec2Model ----
(***************************************************************************)
(* ColorQuest: the game session engine of EnhancedGameScreen.jsx (the     *)
(* multi-mode screen, route /game) and of the classic GameScreen (route   *)
(* /game-classic), with the history they persist in localStorage.         *)
(*                                                                         *)
(* Wall-clock time is not modelled: a pending timer fires at some later   *)
(* step.  What the delays do fix is kept: a setTimeout callback never      *)
(* fires before one that was scheduled earlier with a delay at most as     *)
(* long (see Blocks), and a timer of d milliseconds does not stay pending  *)
(* over more one-second ticks than fit in d milliseconds (see MayTick).    *)
(***************************************************************************)
EXTENDS Integers, Sequences, FiniteSets, TLC

VARIABLES
    screen,          \* which component is mounted: "enhanced", "classic", "away"
    gameMode,        \* searchParams.get('mode') || 'classic'
    currentIndex,    \* useState(0)
    score,           \* useState(0)
    isFinished,      \* useState(false)
    selectedOption,  \* useState(null); NoOption models null
    feedback,        \* useState(''): "", "correct", "wrong"
    showFeedback,    \* useState(false)
    isTransitioning, \* useState(false)
    qLen,            \* questions.length (questions: useState([]))
    timeLeft,        \* useState(0)
    totalTime,       \* useState(0)
    modeSettings,    \* useState({timeLimit: null, ...}); timeLimit 0 models null
    chains,          \* pending setTimeout callbacks of handleSelect, in scheduling order
    gameHistory,     \* classic GameScreen: useState([]) copy of the history
    storage,         \* localStorage['colorquest-history'], newest first
    parses,          \* the text under that key is absent or JSON.parse accepts it
    dataset,         \* staticQuestions of the questions module
    shuffled,        \* what the latest examined getShuffledQuestions call returned
    session,         \* history variable: number of the session being played
    tally,           \* history variable: correct selections accepted in this session
    saves            \* history variable: results this session has appended

vars == <<screen, gameMode, currentIndex, score, isFinished, selectedOption,
          feedback, showFeedback, isTransitioning, qLen, timeLeft, totalTime,
          modeSettings, chains, gameHistory, storage, parses, dataset,
          shuffled, session, tally, saves>>

\* what the game engine neither reads nor writes
library == <<dataset, shuffled>>

component == <<currentIndex, score, isFinished, selectedOption, feedback,
               showFeedback, isTransitioning, qLen, timeLeft, totalTime,
               modeSettings>>

----------------------------------------------------------------------------
(* Bounds of the model *)

\* sessions (mounts and restarts) in one behaviour
MaxSessions == 2
\* seconds the count-up timer of speed mode is followed for
MaxSpeedSeconds == 2
\* longest question list the stored percentage is examined on
MaxTotal == 6
\* longest array shuffleArray is examined on
MaxArray == 4
\* questions of the datasets getShuffledQuestions is examined on
MaxDataset == 2

(* Program constants *)

\* selectedOption === null
NoOption == -1
\* staticQuestions has five entries
NumQuestions == 5
\* each question has three options
NumOptions == 3
\* the inner setTimeout of handleSelect: 400 ms
TransitionDelay == 400
\* the feedback delay of the classic GameScreen: 1800 ms
ClassicFeedback == 1800
\* EnhancedGameScreen keeps the last 50 results
EnhancedCap == 50
\* the classic GameScreen keeps the last 10 results
ClassicCap == 10

Modes == {"classic", "timed", "speed", "hard"}

\* an entry of an options array (its image path follows from the label)
Option(label, isCorrect) == [label |-> label, isCorrect |-> isCorrect]

\* the questions database of the questions module
staticQuestions ==
    << [color |-> "red",
        options |-> <<Option("Apple", TRUE), Option("Banana", FALSE),
                      Option("Sky", FALSE)>>],
       [color |-> "blue",
        options |-> <<Option("Sky", TRUE), Option("Lemon", FALSE),
                      Option("Tomato", FALSE)>>],
       [color |-> "green",
        options |-> <<Option("Leaf", TRUE), Option("Sun", FALSE),
                      Option("Strawberry", FALSE)>>],
       [color |-> "yellow",
        options |-> <<Option("Banana", TRUE), Option("Grapes", FALSE),
                      Option("Cherry", FALSE)>>],
       [color |-> "orange",
        options |-> <<Option("Carrot", TRUE), Option("Eggplant", FALSE),
                      Option("Broccoli", FALSE)>> ] >>

----------------------------------------------------------------------------
(* Pure functions *)

Min(a, b) == IF a < b THEN a ELSE b

\* Array.prototype.slice(0, n)
Slice(s, n) == SubSeq(s, 1, Min(Len(s), n))

\* Math.floor in the place of Math.round
Percentage_Floor(finalScore, total) == (100 * finalScore) \div total

\* Math.round((finalScore / questions.length) * 100), for questions.length > 0:
\* the integer n with n <= x + 1/2 < n + 1 (the double-precision quotient and
\* product give this value for every questions.length below 40)
Percentage(finalScore, total) == (200 * finalScore + total) \div (2 * total)

\* the text of the badge of a game in the Recent Games list of StatisticsPage
StatisticsBadge(percentage) ==
    IF percentage = 100 THEN "Perfect!"
    ELSE IF percentage >= 90 THEN "Excellent!"
    ELSE IF percentage >= 80 THEN "Great!"
    ELSE IF percentage >= 70 THEN "Good!"
    ELSE IF percentage >= 60 THEN "Fair"
    ELSE "Practice More"

\* the rating after the percentage on the completion screen of Game
CompletionRating(percentage) ==
    IF percentage = 100 THEN "Perfect!"
    ELSE IF percentage >= 90 THEN "Excellent!"
    ELSE IF percentage >= 80 THEN "Great Job!"
    ELSE IF percentage >= 70 THEN "Good Work!"
    ELSE IF percentage >= 60 THEN "Well Done!"
    ELSE IF percentage >= 50 THEN "Keep Trying!"
    ELSE "Practice More!"

\* the text of the performance badge of a game in the history list of Game
HistoryBadge(percentage) ==
    IF percentage = 100 THEN "Perfect!"
    ELSE IF percentage >= 80 THEN "Excellent!"
    ELSE IF percentage >= 60 THEN "Good!"
    ELSE "Keep Trying!"

\* searchParams.get('mode') || 'classic', with "" for an absent or empty
\* parameter
QueryMode(param) == IF param = "" THEN "classic" ELSE param

\* initializeGameMode without its case 'hard'
ModeProfile_NoHard(mode) ==
    CASE mode = "timed" -> [timeLimit |-> 60, showTimer |-> TRUE,
                            feedbackDuration |-> 1000, questionTime |-> 0]
      [] mode = "speed" -> [timeLimit |-> 0, showTimer |-> TRUE,
                            feedbackDuration |-> 800, questionTime |-> 0]
      [] OTHER          -> [timeLimit |-> 0, showTimer |-> FALSE,
                            feedbackDuration |-> 1800, questionTime |-> 0]

\* the modeSettings object initializeGameMode sets for a mode
ModeProfile(mode) ==
    CASE mode = "timed" -> [timeLimit |-> 60, showTimer |-> TRUE,
                            feedbackDuration |-> 1000, questionTime |-> 0]
      [] mode = "speed" -> [timeLimit |-> 0, showTimer |-> TRUE,
                            feedbackDuration |-> 800, questionTime |-> 0]
      [] mode = "hard"  -> [timeLimit |-> 90, showTimer |-> TRUE,
                            feedbackDuration |-> 1200, questionTime |-> 15]
      [] OTHER          -> [timeLimit |-> 0, showTimer |-> FALSE,
                            feedbackDuration |-> 1800, questionTime |-> 0]

\* the initial value of useState for modeSettings
InitialSettings == [timeLimit |-> 0, showTimer |-> FALSE,
                    feedbackDuration |-> 1800, questionTime |-> 0]

\* setTimeLeft / setTotalTime of initializeGameMode: the default branch sets neither
InitTimeLeft(mode, old) ==
    CASE mode = "timed" -> 60
      [] mode = "speed" -> 0
      [] mode = "hard"  -> 90
      [] OTHER          -> old

\* [shuffled[i], shuffled[j]] = [shuffled[j], shuffled[i]], positions from 1
Swap(s, i, j) == [s EXCEPT ![i] = s[j], ![j] = s[i]]

\* draws with Math.floor(Math.random() * shuffled.length) at every index
DrawsFor_WholeRange(n) == [1..(n - 1) -> 0..(n - 1)]

\* the values Math.floor(Math.random() * (i + 1)) can take for i = 1..n-1:
\* one draw in 0..i for each index i of the loop
DrawsFor(n) == {d \in [1..(n - 1) -> 0..(n - 1)] : \A i \in 1..(n - 1) : d[i] <= i}

\* the loop of shuffleArray from index i down to 1 (indices from 0, as in the code)
RECURSIVE ShuffleLoop(_, _, _)
ShuffleLoop(arr, i, draws) ==
    IF i > 0
    THEN ShuffleLoop(Swap(arr, i + 1, draws[i] + 1), i - 1, draws)
    ELSE arr

\* shuffleArray shuffling its argument in place instead of a copy
shuffleArray_InPlace(array, draws) ==
    [shuffled |-> ShuffleLoop(array, Len(array) - 1, draws),
     array |-> ShuffleLoop(array, Len(array) - 1, draws)]

\* shuffleArray(array) with the given draws: the array it returns, and its
\* argument as the call leaves it
shuffleArray(array, draws) ==
    [shuffled |-> ShuffleLoop(array, Len(array) - 1, draws),
     array |-> array]

\* getShuffledQuestions giving every question the shuffled options of the
\* first question of the shuffled list
getShuffledQuestions_FirstOptions(data, qDraws, oDraws) ==
    LET shuffledQuestions == shuffleArray(data, qDraws).shuffled
    IN  [questions |->
            [k \in 1..Len(shuffledQuestions) |->
                [shuffledQuestions[k] EXCEPT
                    !.options = shuffleArray(shuffledQuestions[1].options,
                                             oDraws[k]).shuffled]],
         source |-> data]

\* getShuffledQuestions() on the dataset data: the questions it returns, and
\* the dataset as the call leaves it (the question objects of data and of
\* shuffledQuestions are the same objects, so their options arrays are too)
getShuffledQuestions(data, qDraws, oDraws) ==
    LET outer == shuffleArray(data, qDraws)
        shuffledQuestions == outer.shuffled
        inner(k) == shuffleArray(shuffledQuestions[k].options, oDraws[k])
        at(q) == CHOOSE k \in 1..Len(shuffledQuestions) :
                    shuffledQuestions[k].color = q.color
    IN  [questions |->
            [k \in 1..Len(shuffledQuestions) |->
                [shuffledQuestions[k] EXCEPT !.options = inner(k).shuffled]],
         source |->
            [m \in 1..Len(outer.array) |->
                [outer.array[m] EXCEPT !.options = inner(at(outer.array[m])).array]]]

\* the gameResult object of saveGameResult (id, date, time, duration left out)
GameResult(finalScore, total, mode, sess) ==
    [score |-> finalScore, totalQuestions |-> total,
     percentage |-> Percentage(finalScore, total), gameMode |-> mode, sess |-> sess]

\* a result written by an earlier visit
PriorResult(k) == GameResult(0, NumQuestions, "classic", 0 - k)

\* a history of n earlier results, newest first
PriorHistory(n) == [k \in 1..n |-> PriorResult(k)]

\* the countdown effect without !isFinished in its condition
CountdownActive_IgnoresFinished ==
    /\ screen = "enhanced"
    /\ modeSettings.timeLimit # 0
    /\ timeLeft > 0

\* the countdown effect of timed and hard mode has an interval installed
CountdownActive ==
    /\ screen = "enhanced"
    /\ modeSettings.timeLimit # 0
    /\ timeLeft > 0
    /\ ~isFinished

\* the count-up effect of speed mode has an interval installed
CountUpActive ==
    /\ screen = "enhanced"
    /\ gameMode = "speed"
    /\ ~isFinished

----------------------------------------------------------------------------
\* the page is loaded: no game screen is mounted, no timer is pending
Loaded ==
    /\ screen = "away"
    /\ gameMode = "classic"
    /\ currentIndex = 0
    /\ score = 0
    /\ isFinished = FALSE
    /\ selectedOption = NoOption
    /\ feedback = ""
    /\ showFeedback = FALSE
    /\ isTransitioning = FALSE
    /\ qLen = 0
    /\ timeLeft = 0
    /\ totalTime = 0
    /\ modeSettings = InitialSettings
    /\ chains = <<>>
    /\ gameHistory = <<>>
    /\ shuffled = <<>>
    /\ session = 0
    /\ tally = 0
    /\ saves = 0

\* the page is loaded with an empty localStorage
Init ==
    /\ Loaded
    /\ storage = <<>>
    /\ parses = TRUE
    /\ dataset = staticQuestions

----------------------------------------------------------------------------
(* Persistence *)

\* EnhancedGameScreen.saveGameResult: the value it writes to localStorage
saveGameResult(finalScore, total, mode, sess) ==
    Slice(<<GameResult(finalScore, total, mode, sess)>> \o storage, EnhancedCap)

\* Game.saveGameResult: the value it writes, built from its gameHistory state
Game_saveGameResult(finalScore, total, hist, sess) ==
    Slice(<<GameResult(finalScore, total, "undefined", sess)>> \o hist, ClassicCap)

----------------------------------------------------------------------------
(* Mounting and leaving *)

\* /game or /game?mode=...: first render and the initialisation effect
MountEnhanced(mode) ==
    /\ screen = "away"
    /\ screen' = "enhanced"
    /\ gameMode' = mode
    /\ currentIndex' = 0
    /\ score' = 0
    /\ isFinished' = FALSE
    /\ selectedOption' = NoOption
    /\ feedback' = ""
    /\ showFeedback' = FALSE
    /\ isTransitioning' = FALSE
    /\ qLen' = NumQuestions
    /\ modeSettings' = ModeProfile(mode)
    /\ timeLeft' = InitTimeLeft(mode, 0)
    /\ totalTime' = InitTimeLeft(mode, 0)
    /\ session' = session + 1
    /\ tally' = 0
    /\ saves' = 0
    /\ UNCHANGED <<chains, gameHistory, storage>>
    /\ UNCHANGED <<parses, library>>

\* /game-classic: first render and the two mount effects of Game
\* (JSON.parse of a malformed text throws in the effect: see Crash)
MountClassic ==
    /\ screen = "away"
    /\ parses
    /\ screen' = "classic"
    /\ currentIndex' = 0
    /\ score' = 0
    /\ isFinished' = FALSE
    /\ selectedOption' = NoOption
    /\ feedback' = ""
    /\ showFeedback' = FALSE
    /\ isTransitioning' = FALSE
    /\ qLen' = NumQuestions
    /\ gameHistory' = storage
    /\ session' = session + 1
    /\ tally' = 0
    /\ saves' = 0
    /\ UNCHANGED <<gameMode, timeLeft, totalTime, modeSettings, chains, storage>>
    /\ UNCHANGED <<parses, library>>

\* navigation away from a game screen: the component unmounts and its effects
\* are cleaned up (clearInterval); nothing clears the pending setTimeout callbacks
Leave ==
    /\ screen \notin {"away", "crashed"}
    /\ screen' = "away"
    /\ gameMode' = "classic"
    /\ currentIndex' = 0
    /\ score' = 0
    /\ isFinished' = FALSE
    /\ selectedOption' = NoOption
    /\ feedback' = ""
    /\ showFeedback' = FALSE
    /\ isTransitioning' = FALSE
    /\ qLen' = 0
    /\ timeLeft' = 0
    /\ totalTime' = 0
    /\ modeSettings' = InitialSettings
    /\ gameHistory' = <<>>
    /\ chains' = [i \in 1..Len(chains) |-> [chains[i] EXCEPT !.live = FALSE]]
    /\ tally' = 0
    /\ saves' = 0
    /\ UNCHANGED <<storage, session>>
    /\ UNCHANGED <<parses, library>>

----------------------------------------------------------------------------
(* Answering *)

\* the callback chain handleSelect schedules, with what its closures captured
NewChain(site, delay, isCorrect) ==
    [live |-> TRUE, site |-> site, stage |-> 1, delay |-> delay, ticks |-> 0,
     idx |-> currentIndex, score |-> score, isCorrect |-> isCorrect,
     total |-> qLen, mode |-> IF site = "classic" THEN "undefined" ELSE gameMode,
     hist |-> IF site = "classic" THEN gameHistory ELSE <<>>,
     sess |-> session]

\* the option buttons without disabled={selectedOption !== null}
CanSelect_NotDisabled ==
    /\ qLen > 0
    /\ currentIndex < qLen
    /\ ~isFinished

\* the option buttons are rendered, and enabled, only in this case
CanSelect ==
    /\ qLen > 0
    /\ currentIndex < qLen
    /\ ~isFinished
    /\ selectedOption = NoOption

\* handleSelect restarting the countdown at the time limit of the mode
handleSelect_ResetsTimer(isCorrect, optionIndex) ==
    /\ screen = "enhanced"
    /\ CanSelect
    /\ selectedOption' = optionIndex
    /\ score' = IF isCorrect THEN score + 1 ELSE score
    /\ feedback' = IF isCorrect THEN "correct" ELSE "wrong"
    /\ showFeedback' = TRUE
    /\ chains' = Append(chains,
                        NewChain("enhanced", modeSettings.feedbackDuration, isCorrect))
    /\ tally' = IF isCorrect THEN tally + 1 ELSE tally
    /\ timeLeft' = modeSettings.timeLimit
    /\ UNCHANGED <<screen, gameMode, currentIndex, isFinished, isTransitioning,
                   qLen, totalTime, modeSettings, gameHistory, storage,
                   session, saves>>
    /\ UNCHANGED <<parses, library>>

\* handleSelect with setScore(score + 1) outside its if (isCorrect)
handleSelect_AlwaysScores(isCorrect, optionIndex) ==
    /\ screen = "enhanced"
    /\ CanSelect
    /\ selectedOption' = optionIndex
    /\ score' = score + 1
    /\ feedback' = IF isCorrect THEN "correct" ELSE "wrong"
    /\ showFeedback' = TRUE
    /\ chains' = Append(chains,
                        NewChain("enhanced", modeSettings.feedbackDuration, isCorrect))
    /\ tally' = IF isCorrect THEN tally + 1 ELSE tally
    /\ UNCHANGED <<screen, gameMode, currentIndex, isFinished, isTransitioning,
                   qLen, timeLeft, totalTime, modeSettings, gameHistory, storage,
                   session, saves>>
    /\ UNCHANGED <<parses, library>>

\* EnhancedGameScreen.handleSelect(isCorrect, optionIndex)
handleSelect(isCorrect, optionIndex) ==
    /\ screen = "enhanced"
    /\ CanSelect
    /\ selectedOption' = optionIndex
    /\ score' = IF isCorrect THEN score + 1 ELSE score
    /\ feedback' = IF isCorrect THEN "correct" ELSE "wrong"
    /\ showFeedback' = TRUE
    /\ chains' = Append(chains,
                        NewChain("enhanced", modeSettings.feedbackDuration, isCorrect))
    /\ tally' = IF isCorrect THEN tally + 1 ELSE tally
    /\ UNCHANGED <<screen, gameMode, currentIndex, isFinished, isTransitioning,
                   qLen, timeLeft, totalTime, modeSettings, gameHistory, storage,
                   session, saves>>
    /\ UNCHANGED <<parses, library>>

\* Game.handleSelect(isCorrect, optionIndex)
Game_handleSelect(isCorrect, optionIndex) ==
    /\ screen = "classic"
    /\ CanSelect
    /\ selectedOption' = optionIndex
    /\ score' = IF isCorrect THEN score + 1 ELSE score
    /\ feedback' = IF isCorrect THEN "correct" ELSE "wrong"
    /\ showFeedback' = TRUE
    /\ chains' = Append(chains, NewChain("classic", ClassicFeedback, isCorrect))
    /\ tally' = IF isCorrect THEN tally + 1 ELSE tally
    /\ UNCHANGED <<screen, gameMode, currentIndex, isFinished, isTransitioning,
                   qLen, timeLeft, totalTime, modeSettings, gameHistory, storage,
                   session, saves>>
    /\ UNCHANGED <<parses, library>>

----------------------------------------------------------------------------
(* The delayed callbacks *)

Without(s, i) == [k \in 1..(Len(s) - 1) |-> IF k < i THEN s[k] ELSE s[k + 1]]

\* the delay of the timer chain c is waiting for
PendingDelay(c) == IF c.stage = 1 THEN c.delay ELSE TransitionDelay

\* the pending timer of chain k was scheduled before that of chain i with a
\* delay at most as long, so it fires first
Blocks(k, i) == k < i /\ PendingDelay(chains[k]) <= PendingDelay(chains[i])

\* the outer callback of chain i may fire now
FeedbackDue(i) ==
    /\ i \in 1..Len(chains)
    /\ chains[i].stage = 1
    /\ \A k \in 1..Len(chains) : ~Blocks(k, i)

\* the inner callback of chain i may fire now
TransitionDue(i) ==
    /\ i \in 1..Len(chains)
    /\ chains[i].stage = 2
    /\ \A k \in 1..Len(chains) : ~Blocks(k, i)

\* the outer callback: setIsTransitioning(true), then the inner setTimeout
FeedbackElapsed(i) ==
    /\ FeedbackDue(i)
    /\ chains' = Append(Without(chains, i),
                        [chains[i] EXCEPT !.stage = 2, !.ticks = 0])
    /\ isTransitioning' = IF chains[i].live THEN TRUE ELSE isTransitioning
    /\ UNCHANGED <<screen, gameMode, currentIndex, score, isFinished,
                   selectedOption, feedback, showFeedback, qLen, timeLeft,
                   totalTime, modeSettings, gameHistory, storage, session, tally,
                   saves>>
    /\ UNCHANGED <<parses, library>>

\* the inner callback, first branch: the next question
AdvanceQuestion(i) ==
    /\ TransitionDue(i)
    /\ chains[i].idx + 1 < chains[i].total
    /\ chains' = Without(chains, i)
    /\ IF chains[i].live
       THEN /\ currentIndex' = chains[i].idx + 1
            /\ feedback' = ""
            /\ showFeedback' = FALSE
            /\ isTransitioning' = FALSE
            /\ selectedOption' = NoOption
       ELSE UNCHANGED <<currentIndex, feedback, showFeedback, isTransitioning,
                        selectedOption>>
    /\ UNCHANGED <<screen, gameMode, score, isFinished, qLen, timeLeft, totalTime,
                   modeSettings, gameHistory, storage, session, tally, saves>>
    /\ UNCHANGED <<parses, library>>

\* the score the inner callback hands to saveGameResult
FinalScore(c) == IF c.isCorrect THEN c.score + 1 ELSE c.score

\* what the inner callback of chain c writes to localStorage
Written(c) ==
    IF c.site = "enhanced"
    THEN saveGameResult(FinalScore(c), c.total, c.mode, c.sess)
    ELSE Game_saveGameResult(FinalScore(c), c.total, c.hist, c.sess)

\* the inner callback, second branch: save the result and finish
\* (EnhancedGameScreen.saveGameResult parses the stored text first: see SaveThrows)
FinishGame(i) ==
    /\ TransitionDue(i)
    /\ ~(chains[i].idx + 1 < chains[i].total)
    /\ parses \/ chains[i].site = "classic"
    /\ chains' = Without(chains, i)
    /\ storage' = Written(chains[i])
    /\ parses' = TRUE
    /\ saves' = IF chains[i].sess = session THEN saves + 1 ELSE saves
    /\ gameHistory' = IF chains[i].live /\ chains[i].site = "classic"
                      THEN Written(chains[i])
                      ELSE gameHistory
    /\ isFinished' = IF chains[i].live THEN TRUE ELSE isFinished
    /\ UNCHANGED <<screen, gameMode, currentIndex, score, selectedOption, feedback,
                   showFeedback, isTransitioning, qLen, timeLeft, totalTime,
                   modeSettings, session, tally, library>>

\* the inner callback, second branch, when the stored text is malformed:
\* JSON.parse throws inside saveGameResult, so neither setItem nor
\* setIsFinished(true) is reached
SaveThrows(i) ==
    /\ TransitionDue(i)
    /\ ~(chains[i].idx + 1 < chains[i].total)
    /\ ~parses
    /\ chains[i].site = "enhanced"
    /\ chains' = Without(chains, i)
    /\ UNCHANGED <<screen, gameMode, component, gameHistory, storage, parses,
                   library, session, tally, saves>>

----------------------------------------------------------------------------
(* Timers *)

\* the one-second ticks that fit in a delay of ms milliseconds
TicksWithin(ms) == (ms + 999) \div 1000

\* another second may pass before any pending callback fires
MayTick == \A i \in 1..Len(chains) :
              chains[i].ticks < TicksWithin(PendingDelay(chains[i]))

\* the pending callbacks after one more second
Ticked == [i \in 1..Len(chains) |-> [chains[i] EXCEPT !.ticks = @ + 1]]

\* the countdown interval callback without setIsFinished(true) at expiry
Countdown_NoFinish ==
    /\ CountdownActive
    /\ MayTick
    /\ timeLeft' = IF timeLeft <= 1 THEN 0 ELSE timeLeft - 1
    /\ chains' = Ticked
    /\ UNCHANGED <<screen, gameMode, currentIndex, score, isFinished,
                   selectedOption, feedback, showFeedback, isTransitioning, qLen,
                   totalTime, modeSettings, gameHistory, storage, session, tally,
                   saves>>
    /\ UNCHANGED <<parses, library>>

\* the countdown interval callback computing from the timeLeft of the first
\* render, setTimeLeft(timeLeft - 1), instead of from prev
Countdown_StaleClosure ==
    /\ CountdownActive
    /\ MayTick
    /\ timeLeft' = IF totalTime <= 1 THEN 0 ELSE totalTime - 1
    /\ isFinished' = IF totalTime <= 1 THEN TRUE ELSE isFinished
    /\ chains' = Ticked
    /\ UNCHANGED <<screen, gameMode, currentIndex, score, selectedOption, feedback,
                   showFeedback, isTransitioning, qLen, totalTime, modeSettings,
                   gameHistory, storage, session, tally, saves>>
    /\ UNCHANGED <<parses, library>>

\* the countdown interval callback of timed and hard mode
Countdown ==
    /\ CountdownActive
    /\ MayTick
    /\ timeLeft' = IF timeLeft <= 1 THEN 0 ELSE timeLeft - 1
    /\ isFinished' = IF timeLeft <= 1 THEN TRUE ELSE isFinished
    /\ chains' = Ticked
    /\ UNCHANGED <<screen, gameMode, currentIndex, score, selectedOption, feedback,
                   showFeedback, isTransitioning, qLen, totalTime, modeSettings,
                   gameHistory, storage, session, tally, saves>>
    /\ UNCHANGED <<parses, library>>

\* a count-up callback that ends the session like the countdown does, once
\* the followed seconds have passed
CountUp_Finishes ==
    /\ CountUpActive
    /\ timeLeft < MaxSpeedSeconds
    /\ MayTick
    /\ timeLeft' = timeLeft + 1
    /\ isFinished' = (timeLeft + 1 = MaxSpeedSeconds)
    /\ chains' = Ticked
    /\ UNCHANGED <<screen, gameMode, currentIndex, score,
                   selectedOption, feedback, showFeedback, isTransitioning, qLen,
                   totalTime, modeSettings, gameHistory, storage, session, tally,
                   saves>>
    /\ UNCHANGED <<parses, library>>

\* the count-up interval callback of speed mode, when the whole seconds since
\* gameStartTime have grown by one (the other calls set the value timeLeft has)
CountUp ==
    /\ CountUpActive
    /\ timeLeft < MaxSpeedSeconds
    /\ MayTick
    /\ timeLeft' = timeLeft + 1
    /\ chains' = Ticked
    /\ UNCHANGED <<screen, gameMode, currentIndex, score, isFinished,
                   selectedOption, feedback, showFeedback, isTransitioning, qLen,
                   totalTime, modeSettings, gameHistory, storage, session, tally,
                   saves>>
    /\ UNCHANGED <<parses, library>>

----------------------------------------------------------------------------
(* Restart *)

\* handleRestart without its call of initializeGameMode()
handleRestart_NoInitialize ==
    /\ screen = "enhanced"
    /\ isFinished
    /\ currentIndex' = 0
    /\ score' = 0
    /\ feedback' = ""
    /\ isFinished' = FALSE
    /\ showFeedback' = FALSE
    /\ isTransitioning' = FALSE
    /\ selectedOption' = NoOption
    /\ qLen' = NumQuestions
    /\ session' = session + 1
    /\ tally' = 0
    /\ saves' = 0
    /\ UNCHANGED <<screen, gameMode, chains, gameHistory, storage, modeSettings,
                   timeLeft, totalTime>>
    /\ UNCHANGED <<parses, library>>

\* EnhancedGameScreen.handleRestart: the Play Again button of the finished screen
handleRestart ==
    /\ screen = "enhanced"
    /\ isFinished
    /\ currentIndex' = 0
    /\ score' = 0
    /\ feedback' = ""
    /\ isFinished' = FALSE
    /\ showFeedback' = FALSE
    /\ isTransitioning' = FALSE
    /\ selectedOption' = NoOption
    /\ qLen' = NumQuestions
    /\ modeSettings' = ModeProfile(gameMode)
    /\ timeLeft' = InitTimeLeft(gameMode, timeLeft)
    /\ totalTime' = InitTimeLeft(gameMode, totalTime)
    /\ session' = session + 1
    /\ tally' = 0
    /\ saves' = 0
    /\ UNCHANGED <<screen, gameMode, chains, gameHistory, storage>>
    /\ UNCHANGED <<parses, library>>

\* Game.handleRestart
Game_handleRestart ==
    /\ screen = "classic"
    /\ isFinished
    /\ currentIndex' = 0
    /\ score' = 0
    /\ feedback' = ""
    /\ isFinished' = FALSE
    /\ showFeedback' = FALSE
    /\ isTransitioning' = FALSE
    /\ selectedOption' = NoOption
    /\ qLen' = NumQuestions
    /\ session' = session + 1
    /\ tally' = 0
    /\ saves' = 0
    /\ UNCHANGED <<screen, gameMode, timeLeft, totalTime, modeSettings, chains,
                   gameHistory, storage>>
    /\ UNCHANGED <<parses, library>>

----------------------------------------------------------------------------
(* The session engine: one visit to a game screen, followed through         *)
(* MaxSessions sessions.                                                    *)

Next ==
    \/ session = 0 /\ \E mode \in Modes : MountEnhanced(mode)
    \/ session = 0 /\ MountClassic
    \/ Leave
    \/ \E isCorrect \in BOOLEAN, optionIndex \in 0..(NumOptions - 1) :
          handleSelect(isCorrect, optionIndex)
    \/ \E isCorrect \in BOOLEAN, optionIndex \in 0..(NumOptions - 1) :
          Game_handleSelect(isCorrect, optionIndex)
    \/ \E i \in 1..Len(chains) : FeedbackElapsed(i)
    \/ \E i \in 1..Len(chains) : AdvanceQuestion(i)
    \/ \E i \in 1..Len(chains) : FinishGame(i)
    \/ Countdown
    \/ CountUp
    \/ session < MaxSessions /\ handleRestart
    \/ session < MaxSessions /\ Game_handleRestart

Spec == Init /\ [][Next]_vars

\* the modes whose profile sets a time limit
CountdownModes == {"timed", "hard"}

\* one visit to /game?mode=timed or /game?mode=hard; Play Again is followed in
\* timed mode
CountdownNext ==
    \/ session = 0 /\ \E mode \in CountdownModes : MountEnhanced(mode)
    \/ Leave
    \/ \E isCorrect \in BOOLEAN, optionIndex \in 0..(NumOptions - 1) :
          handleSelect(isCorrect, optionIndex)
    \/ \E i \in 1..Len(chains) : FeedbackElapsed(i)
    \/ \E i \in 1..Len(chains) : AdvanceQuestion(i)
    \/ \E i \in 1..Len(chains) : FinishGame(i)
    \/ Countdown
    \/ session < MaxSessions /\ gameMode = "timed" /\ handleRestart

\* the countdown sessions with their timers firing: an installed interval
\* ticks and a pending setTimeout callback is run
FairSpec ==
    /\ Init
    /\ [][CountdownNext]_vars
    /\ WF_vars(Countdown)
    /\ WF_vars(\E i \in 1..Len(chains) : FeedbackElapsed(i))
    /\ WF_vars(\E i \in 1..Len(chains) : AdvanceQuestion(i) \/ FinishGame(i))

----------------------------------------------------------------------------
(* The history: visits to the two untimed game screens, one after the      *)
(* other, on a localStorage that earlier visits have filled.                *)

\* the lengths of the history found at page load
PriorLengths == {0, ClassicCap - 1, EnhancedCap - 1}

HistInit ==
    /\ Loaded
    /\ storage \in {PriorHistory(n) : n \in PriorLengths}
    /\ parses = TRUE
    /\ dataset = staticQuestions

HistNext ==
    \/ session < MaxSessions /\ MountEnhanced("classic")
    \/ session < MaxSessions /\ MountClassic
    \/ Leave
    \/ \E isCorrect \in BOOLEAN, optionIndex \in 0..(NumOptions - 1) :
          handleSelect(isCorrect, optionIndex)
    \/ \E isCorrect \in BOOLEAN, optionIndex \in 0..(NumOptions - 1) :
          Game_handleSelect(isCorrect, optionIndex)
    \/ \E i \in 1..Len(chains) : FeedbackElapsed(i)
    \/ \E i \in 1..Len(chains) : AdvanceQuestion(i)
    \/ \E i \in 1..Len(chains) : FinishGame(i)
    \/ session < MaxSessions /\ handleRestart
    \/ session < MaxSessions /\ Game_handleRestart

HistSpec == HistInit /\ [][HistNext]_vars

----------------------------------------------------------------------------
(* Mode resolution: one session of /game?mode=<param>, for the four mode   *)
(* identifiers, no parameter, and an identifier the switch does not know.   *)

ModeParams == Modes \cup {"", "zen"}

ModeNext ==
    \/ session = 0 /\ \E param \in ModeParams : MountEnhanced(QueryMode(param))
    \/ Leave
    \/ \E isCorrect \in BOOLEAN, optionIndex \in 0..(NumOptions - 1) :
          handleSelect(isCorrect, optionIndex)
    \/ \E i \in 1..Len(chains) : FeedbackElapsed(i)
    \/ \E i \in 1..Len(chains) : AdvanceQuestion(i)
    \/ \E i \in 1..Len(chains) : FinishGame(i)
    \/ Countdown
    \/ CountUp

ModeSpec == Init /\ [][ModeNext]_vars

----------------------------------------------------------------------------
(* The questions module: getShuffledQuestions called once per session on a *)
(* dataset of the first questions of staticQuestions.                       *)

\* setQuestions(getShuffledQuestions()) of the initialisation effect and of
\* handleRestart, for some outcome of the Math.random() calls
NewQuestions ==
    /\ \E qDraws \in DrawsFor(Len(dataset)),
          oDraws \in [1..Len(dataset) -> DrawsFor(NumOptions)] :
          LET call == getShuffledQuestions(dataset, qDraws, oDraws)
          IN  /\ shuffled' = call.questions
              /\ dataset' = call.source
              /\ qLen' = Len(call.questions)
    /\ session' = session + 1
    /\ UNCHANGED <<screen, gameMode, currentIndex, score, isFinished,
                   selectedOption, feedback, showFeedback, isTransitioning,
                   timeLeft, totalTime, modeSettings, chains, gameHistory,
                   storage, parses, tally, saves>>

ShuffleInit ==
    /\ Loaded
    /\ storage = <<>>
    /\ parses = TRUE
    /\ dataset \in {SubSeq(staticQuestions, 1, n) : n \in 1..MaxDataset}

ShuffleNext == session < MaxSessions /\ NewQuestions

ShuffleSpec == ShuffleInit /\ [][ShuffleNext]_vars

----------------------------------------------------------------------------
(* A change of the mode parameter on the mounted screen: the Play Game link *)
(* of the layout (/game), or Back and Forward between two /game entries.    *)

\* a parameter change handled like a fresh mount of the screen
ChangeMode_Remounts(mode) ==
    /\ screen = "enhanced"
    /\ mode # gameMode
    /\ gameMode' = mode
    /\ currentIndex' = 0
    /\ score' = 0
    /\ isFinished' = FALSE
    /\ selectedOption' = NoOption
    /\ modeSettings' = ModeProfile(mode)
    /\ timeLeft' = InitTimeLeft(mode, timeLeft)
    /\ totalTime' = InitTimeLeft(mode, totalTime)
    /\ qLen' = NumQuestions
    /\ UNCHANGED <<screen, feedback, showFeedback, isTransitioning, chains,
                   gameHistory, storage, session, tally, saves>>
    /\ UNCHANGED <<parses, library>>

\* the render with the new gameMode and the initialisation effect, which runs
\* again because initializeGameMode changed: initializeGameMode(),
\* setQuestions(getShuffledQuestions()), setGameStartTime(Date.now())
ChangeMode(mode) ==
    /\ screen = "enhanced"
    /\ mode # gameMode
    /\ gameMode' = mode
    /\ modeSettings' = ModeProfile(mode)
    /\ timeLeft' = InitTimeLeft(mode, timeLeft)
    /\ totalTime' = InitTimeLeft(mode, totalTime)
    /\ qLen' = NumQuestions
    /\ UNCHANGED <<screen, currentIndex, score, isFinished, selectedOption,
                   feedback, showFeedback, isTransitioning, chains, gameHistory,
                   storage, session, tally, saves>>
    /\ UNCHANGED <<parses, library>>

ParamNext ==
    \/ session = 0 /\ \E param \in ModeParams : MountEnhanced(QueryMode(param))
    \/ \E param \in ModeParams : ChangeMode(QueryMode(param))
    \/ Leave
    \/ \E isCorrect \in BOOLEAN, optionIndex \in 0..(NumOptions - 1) :
          handleSelect(isCorrect, optionIndex)
    \/ \E i \in 1..Len(chains) : FeedbackElapsed(i)
    \/ \E i \in 1..Len(chains) : AdvanceQuestion(i)
    \/ \E i \in 1..Len(chains) : FinishGame(i)
    \/ Countdown
    \/ CountUp

ParamSpec == Init /\ [][ParamNext]_vars

----------------------------------------------------------------------------
(* shuffleArray alone, on the runs of consecutive questions of              *)
(* staticQuestions.                                                         *)

\* shuffleArray(array) for some outcome of its draws, array being dataset
ShuffleOnce ==
    /\ \E draws \in DrawsFor(Len(dataset)) :
          LET call == shuffleArray(dataset, draws)
          IN  /\ shuffled' = call.shuffled
              /\ dataset' = call.array
    /\ session' = session + 1
    /\ UNCHANGED <<screen, gameMode, currentIndex, score, isFinished,
                   selectedOption, feedback, showFeedback, isTransitioning, qLen,
                   timeLeft, totalTime, modeSettings, chains, gameHistory,
                   storage, parses, tally, saves>>

ArrayInit ==
    /\ Loaded
    /\ storage = <<>>
    /\ parses = TRUE
    /\ dataset \in {SubSeq(staticQuestions, a, b) :
                        a \in 1..NumQuestions, b \in 1..NumQuestions}
    /\ Len(dataset) \in 1..MaxArray

ArrayNext == session < MaxSessions /\ ShuffleOnce

ArraySpec == ArrayInit /\ [][ArrayNext]_vars

----------------------------------------------------------------------------
(* The stored result: the last question of a session of qLen questions, on *)
(* either game screen, with every score the earlier questions can have     *)
(* given.                                                                   *)

LastQuestionInit ==
    /\ screen \in {"enhanced", "classic"}
    /\ gameMode = "classic"
    /\ qLen \in 1..MaxTotal
    /\ currentIndex = qLen - 1
    /\ score \in 0..(qLen - 1)
    /\ tally = score
    /\ isFinished = FALSE
    /\ selectedOption = NoOption
    /\ feedback = ""
    /\ showFeedback = FALSE
    /\ isTransitioning = FALSE
    /\ timeLeft = 0
    /\ totalTime = 0
    /\ modeSettings = ModeProfile("classic")
    /\ chains = <<>>
    /\ gameHistory = <<>>
    /\ shuffled = <<>>
    /\ session = 1
    /\ saves = 0
    /\ storage = <<>>
    /\ parses = TRUE
    /\ dataset = staticQuestions

LastQuestionNext ==
    \/ \E isCorrect \in BOOLEAN, optionIndex \in 0..(NumOptions - 1) :
          handleSelect(isCorrect, optionIndex)
    \/ \E isCorrect \in BOOLEAN, optionIndex \in 0..(NumOptions - 1) :
          Game_handleSelect(isCorrect, optionIndex)
    \/ \E i \in 1..Len(chains) : FeedbackElapsed(i)
    \/ \E i \in 1..Len(chains) : FinishGame(i)

LastQuestionSpec == LastQuestionInit /\ [][LastQuestionNext]_vars

----------------------------------------------------------------------------
(* The pages that load or clear the history *)

\* the components whose mount effect parses the stored text
LoadSites == {"classic", "start", "home", "statistics"}

\* the pages that are no game screen
Pages == {"start", "home", "statistics", "settings"}

\* StartScreen, HomePage, StatisticsPage or SettingsPage mounts: StartScreen
\* and StatisticsPage keep the parsed history in their gameHistory state
MountPage(page) ==
    /\ screen = "away"
    /\ parses \/ page \notin LoadSites
    /\ screen' = page
    /\ gameHistory' = IF page \in {"start", "statistics"} THEN storage ELSE <<>>
    /\ UNCHANGED <<gameMode, component, chains, storage, parses, library, session,
                   tally, saves>>

\* a load site mounts while the stored text is malformed: JSON.parse throws in
\* the mount effect and React unmounts the whole tree
MountThrows(site) ==
    /\ screen = "away"
    /\ ~parses
    /\ site \in LoadSites
    /\ screen' = "crashed"
    /\ UNCHANGED <<gameMode, component, chains, gameHistory, storage, parses,
                   library, session, tally, saves>>

\* clearHistory without setGameHistory([])
clearHistory_KeepsList(confirmed) ==
    /\ screen = "statistics"
    /\ storage' = IF confirmed THEN <<>> ELSE storage
    /\ parses' = IF confirmed THEN TRUE ELSE parses
    /\ UNCHANGED <<screen, gameMode, component, chains, gameHistory, library,
                   session, tally, saves>>

\* StatisticsPage.clearHistory; confirmed is the answer to window.confirm
clearHistory(confirmed) ==
    /\ screen = "statistics"
    /\ storage' = IF confirmed THEN <<>> ELSE storage
    /\ parses' = IF confirmed THEN TRUE ELSE parses
    /\ gameHistory' = IF confirmed THEN <<>> ELSE gameHistory
    /\ UNCHANGED <<screen, gameMode, component, chains, library, session, tally,
                   saves>>

\* SettingsPage: the reset dialog; confirmed runs resetAllData, otherwise the
\* dialog is closed
resetAllData(confirmed) ==
    /\ screen = "settings"
    /\ storage' = IF confirmed THEN <<>> ELSE storage
    /\ parses' = IF confirmed THEN TRUE ELSE parses
    /\ UNCHANGED <<screen, gameMode, component, chains, gameHistory, library,
                   session, tally, saves>>

\* HomePage: the reset button; confirmed is the answer to confirm
HomeReset(confirmed) ==
    /\ screen = "home"
    /\ storage' = IF confirmed THEN <<>> ELSE storage
    /\ parses' = IF confirmed THEN TRUE ELSE parses
    /\ UNCHANGED <<screen, gameMode, component, chains, gameHistory, library,
                   session, tally, saves>>

\* the lengths of the history found at page load
PageLengths == {1, 2}

\* page load: the stored text is a history or malformed (storage then stands
\* for no value and is kept empty); the text is absent after a clear
PageInit ==
    /\ Loaded
    /\ parses \in BOOLEAN
    /\ storage \in {PriorHistory(n) : n \in IF parses THEN PageLengths ELSE {0}}
    /\ dataset = staticQuestions

PageNext ==
    \/ session < MaxSessions /\ MountEnhanced("classic")
    \/ session < MaxSessions /\ MountClassic
    \/ \E page \in Pages : MountPage(page)
    \/ \E site \in LoadSites : MountThrows(site)
    \/ Leave
    \/ \E isCorrect \in BOOLEAN, optionIndex \in 0..(NumOptions - 1) :
          handleSelect(isCorrect, optionIndex)
    \/ \E isCorrect \in BOOLEAN, optionIndex \in 0..(NumOptions - 1) :
          Game_handleSelect(isCorrect, optionIndex)
    \/ \E i \in 1..Len(chains) : FeedbackElapsed(i)
    \/ \E i \in 1..Len(chains) : AdvanceQuestion(i)
    \/ \E i \in 1..Len(chains) : FinishGame(i)
    \/ \E i \in 1..Len(chains) : SaveThrows(i)
    \/ \E confirmed \in BOOLEAN : clearHistory(confirmed)
    \/ \E confirmed \in BOOLEAN : resetAllData(confirmed)
    \/ \E confirmed \in BOOLEAN : HomeReset(confirmed)
    \/ session < MaxSessions /\ handleRestart
    \/ session < MaxSessions /\ Game_handleRestart

PageSpec == PageInit /\ [][PageNext]_vars

----------------------------------------------------------------------------
(* Claims *)

\* a game screen is mounted and its questions are loaded
Playing == screen # "away" /\ qLen > 0

\* chain i belongs to the mounted component but to a session before the current one
Stale(i) == chains[i].live /\ chains[i].sess # session

\* C1: for a session that ends by answering the last question, the score of
\* the result it persists equals the number of correct selections the session
\* accepted.
C1_PersistedScoreIsCorrectCount ==
    [][\A i \in 1..Len(chains) :
          (FinishGame(i) /\ chains[i].live /\ chains[i].sess = session)
              => storage'[1].score = tally]_vars

\* C2: a session that is Finished has appended exactly one result to the
\* history, whether it finished by its last answer or by countdown expiry.
C2_OneResultPerFinishedSession ==
    (Playing /\ isFinished) => saves = 1

\* C3: after a restart, a callback scheduled by the previous session changes
\* neither the state of the new session nor the persisted history.
C3_StaleCallbackIsNoOp ==
    [][\A i \in 1..Len(chains) :
          (Stale(i) /\ (FeedbackElapsed(i) \/ AdvanceQuestion(i) \/ FinishGame(i)))
              => UNCHANGED <<currentIndex, score, isFinished, selectedOption,
                             feedback, showFeedback, isTransitioning, storage>>]_vars

\* C4: a delayed callback that fires after the player has left the game
\* screen appends nothing to the persisted history.
C4_OrphanCallbackAppendsNothing ==
    [][\A i \in 1..Len(chains) :
          (~chains[i].live /\ (FeedbackElapsed(i) \/ AdvanceQuestion(i) \/ FinishGame(i)))
              => storage' = storage]_vars

\* C5: while an option is selected (the session is not Active) no step is an
\* accepted selection: the score does not grow, no callback chain is added
\* and the selected option is not replaced by another one.
C5_SelectOnlyWhileActive ==
    [][selectedOption # NoOption
          => /\ score' <= score
             /\ Len(chains') <= Len(chains)
             /\ selectedOption' \in {selectedOption, NoOption}]_vars

\* C5 witness: an answer is revealed, its chain is pending and it was counted
C5_Witness ==
    /\ Playing
    /\ selectedOption # NoOption
    /\ Len(chains) = 1
    /\ score = 1

\* C6: in every state of a session that is not Finished,
\* score <= currentIndex + 1 and 0 <= currentIndex < totalQuestions.
C6_ScoreAndIndexBounds ==
    (Playing /\ ~isFinished)
        => /\ score <= currentIndex + 1
           /\ 0 <= currentIndex
           /\ currentIndex < qLen

\* C7: with a time limit set, timeLeft = 0 only in a Finished session.
C7_ExpiryForcesFinished ==
    (screen = "enhanced" /\ modeSettings.timeLimit # 0 /\ timeLeft = 0)
        => isFinished

\* C7 witness: the countdown expired while an answer to the third question
\* was revealed
C7_Witness ==
    /\ screen = "enhanced"
    /\ modeSettings.timeLimit # 0
    /\ timeLeft = 0
    /\ isFinished
    /\ currentIndex = 2
    /\ selectedOption # NoOption

\* C8: in timed and hard mode, with the timers firing, every session becomes
\* Finished unless the screen is left; a first session Finished with no answer
\* submitted has seen as many ticks as its time limit (60 in timed mode) and
\* has score 0.
C8_CountdownSessionFinishes ==
    /\ [](( /\ screen = "enhanced"
            /\ modeSettings.timeLimit # 0
            /\ session = 1
            /\ isFinished
            /\ currentIndex = 0
            /\ selectedOption = NoOption)
              => /\ totalTime - timeLeft = modeSettings.timeLimit
                 /\ score = 0)
    /\ (screen = "enhanced" /\ modeSettings.timeLimit # 0)
          ~> (isFinished \/ screen # "enhanced")

\* C8 witness: timed mode, no answer submitted, Finished after 60 ticks
C8_Witness ==
    /\ screen = "enhanced"
    /\ gameMode = "timed"
    /\ session = 1
    /\ isFinished
    /\ totalTime - timeLeft = 60
    /\ score = 0
    /\ currentIndex = 0
    /\ selectedOption = NoOption
    /\ chains = <<>>

\* C9: a restart yields currentIndex = 0, score = 0, no selected option, not
\* Finished, and the timer of the mode at its initial value, whatever the
\* state before.
C9_RestartResets ==
    [][(screen # "away" /\ screen' = screen /\ session' # session)
          => /\ currentIndex' = 0
             /\ score' = 0
             /\ selectedOption' = NoOption
             /\ ~isFinished'
             /\ (screen = "enhanced" /\ gameMode = "timed") => timeLeft' = 60
             /\ (screen = "enhanced" /\ gameMode = "hard") => timeLeft' = 90
             /\ (screen = "enhanced" /\ gameMode = "speed") => timeLeft' = 0]_vars

\* C9 witness: a second session of hard mode, right after the restart of a
\* session that the countdown had finished with an answer revealed
C9_Witness ==
    /\ screen = "enhanced"
    /\ gameMode = "hard"
    /\ session = 2
    /\ timeLeft = 90
    /\ currentIndex = 0
    /\ score = 0
    /\ selectedOption = NoOption
    /\ Len(chains) = 1
    /\ chains[1].sess = 1

\* the capacity of the history at the call site of chain c
Capacity(c) == IF c.site = "enhanced" THEN EnhancedCap ELSE ClassicCap

\* C10: an append at a call site with capacity C persists exactly the first C
\* elements of the new result followed by the previously persisted history,
\* in its previous order.
C10_AppendKeepsNewestWithinCap ==
    [][\A i \in 1..Len(chains) :
          FinishGame(i)
              => /\ storage'[1] = GameResult(FinalScore(chains[i]), chains[i].total,
                                             chains[i].mode, chains[i].sess)
                 /\ storage' = Slice(<<storage'[1]>> \o storage,
                                     Capacity(chains[i]))]_vars

\* C11: with a malformed text under the history key, every load site mounts
\* with an empty history instead of failing, and the read step of an append
\* treats the text as an empty history, so the append persists the new result
\* alone.
C11_MalformedLoadsAsEmpty ==
    [][~parses =>
          /\ screen' # "crashed"
          /\ (screen = "away" /\ screen' \in LoadSites) => gameHistory' = <<>>
          /\ \A i \in 1..Len(chains) :
                (/\ TransitionDue(i)
                 /\ ~(chains[i].idx + 1 < chains[i].total)
                 /\ chains' = Without(chains, i))
                    => /\ parses'
                       /\ Len(storage') = 1]_vars

\* C12: an append keeps the newest result that is persisted at the moment of
\* the append, whenever the capacity of the call site has room for it: the
\* result of an earlier append is not lost.
C12_NoLostUpdate ==
    [][\A i \in 1..Len(chains) :
          (FinishGame(i) /\ storage # <<>> /\ Capacity(chains[i]) > 1)
              => /\ Len(storage') >= 2
                 /\ storage'[2] = storage[1]]_vars

\* C13: a confirmed clear (statistics page, settings page, home page) leaves
\* no persisted history, so that a load returns the empty sequence, and the
\* statistics page's in-memory history is empty; a declined clear changes
\* neither the persisted nor the in-memory history.
C13_ClearEmptiesOrKeeps ==
    [][\A confirmed \in BOOLEAN :
          (clearHistory(confirmed) \/ resetAllData(confirmed) \/ HomeReset(confirmed))
              => IF confirmed
                 THEN /\ storage' = <<>>
                      /\ parses'
                      /\ screen = "statistics" => gameHistory' = <<>>
                 ELSE UNCHANGED <<storage, parses, gameHistory>>]_vars

\* C13 witness: the statistics page after a confirmed clear, with a game
\* screen visited before
C13_Witness ==
    /\ screen = "statistics"
    /\ storage = <<>>
    /\ gameHistory = <<>>
    /\ parses
    /\ session = 1

\* the mode table of the claim: time limit (0 for none), timer shown, feedback
\* delay in milliseconds
TableProfile(mode) ==
    CASE mode = "classic" -> <<0, FALSE, 1800>>
      [] mode = "timed"   -> <<60, TRUE, 1000>>
      [] mode = "speed"   -> <<0, TRUE, 800>>
      [] mode = "hard"    -> <<90, TRUE, 1200>>
      [] OTHER            -> <<0, FALSE, 1800>>

\* C14: the mounted screen has the profile of the mode table for its mode
\* identifier, every unknown identifier having the classic profile, and the
\* feedback delay of every answer of the session is the one of the profile.
C14_ModeResolution ==
    screen = "enhanced"
        => /\ <<modeSettings.timeLimit, modeSettings.showTimer,
                modeSettings.feedbackDuration>> = TableProfile(gameMode)
           /\ gameMode \notin Modes => modeSettings = ModeProfile("classic")
           /\ \A i \in 1..Len(chains) :
                 chains[i].live => chains[i].delay = TableProfile(gameMode)[3]

\* C14 witness: an unknown mode identifier, an answer given
C14_Witness ==
    /\ screen = "enhanced"
    /\ gameMode = "zen"
    /\ modeSettings.feedbackDuration = 1800
    /\ Len(chains) = 1
    /\ chains[1].delay = 1800

\* the number of positions of the sequence s that hold x
Count(s, x) == Cardinality({i \in DOMAIN s : s[i] = x})

\* the sequences a and b hold the same elements, each as often
SameMultiset(a, b) ==
    /\ Len(a) = Len(b)
    /\ \A i \in DOMAIN a : Count(a, a[i]) = Count(b, a[i])

\* the colours of a list of questions, in its order
Colors(qs) == [k \in DOMAIN qs |-> qs[k].color]

\* C15: getShuffledQuestions returns the questions of the dataset, each once,
\* each with the options of its source question, each as often; so every
\* returned question has exactly 3 options of which exactly one is correct.
C15_ShufflePreservesMultisets ==
    [][session' # session =>
          /\ SameMultiset(Colors(shuffled'), Colors(dataset))
          /\ \A k \in DOMAIN shuffled' : \A m \in DOMAIN dataset :
                shuffled'[k].color = dataset[m].color
                    => SameMultiset(shuffled'[k].options, dataset[m].options)
          /\ \A k \in DOMAIN shuffled' :
                /\ Len(shuffled'[k].options) = NumOptions
                /\ Cardinality({o \in DOMAIN shuffled'[k].options :
                                    shuffled'[k].options[o].isCorrect}) = 1]_vars

\* C15 witness: two questions returned in reverse order, the correct option
\* of the first moved to the last position
C15_Witness ==
    /\ Len(shuffled) = 2
    /\ shuffled[1].color = "blue"
    /\ shuffled[2].color = "red"
    /\ shuffled[1].options[3].isCorrect

\* C16: the dataset keeps the order of staticQuestions and each of its
\* questions keeps the order of its options, after any number of
\* getShuffledQuestions calls.
C16_SourceNotMutated ==
    dataset = SubSeq(staticQuestions, 1, Len(dataset))

\* C16 witness: after a second call, whose list differs from the source order
\* in its questions and in the options of its first question
C16_Witness ==
    /\ session = 2
    /\ Len(shuffled) = 2
    /\ shuffled[1].color = dataset[2].color
    /\ shuffled[1].options[1] # dataset[2].options[1]
    /\ dataset = SubSeq(staticQuestions, 1, 2)

\* C17: the percentage of every stored result is an integer of 0..100 nearest
\* to 100 * score / totalQuestions (33 for 1 of 3, 67 for 2 of 3), where
\* 0 <= score <= totalQuestions and totalQuestions > 0.
C17_PercentageIsRounded ==
    \A k \in 1..Len(storage) :
        LET r == storage[k]
            d == r.totalQuestions * r.percentage - 100 * r.score
        IN  /\ r.totalQuestions > 0
            /\ r.score \in 0..r.totalQuestions
            /\ r.percentage \in 0..100
            /\ 2 * d <= r.totalQuestions
            /\ 2 * (0 - d) <= r.totalQuestions
            /\ (r.score = 1 /\ r.totalQuestions = 3) => r.percentage = 33
            /\ (r.score = 2 /\ r.totalQuestions = 3) => r.percentage = 67

\* C17 witness: a finished session of three questions with two right answers
\* stored 67
C17_Witness ==
    /\ isFinished
    /\ Len(storage) = 1
    /\ storage[1].score = 2
    /\ storage[1].totalQuestions = 3
    /\ storage[1].percentage = 67

\* C18: while a game screen shows a session, the selected option is unset
\* exactly when the session is Active, that is neither finished nor revealing
\* an answer; it is set in every AnswerRevealed and Finished state.
C18_SelectedUnsetIffActive ==
    Playing => (selectedOption = NoOption <=> (~isFinished /\ ~showFeedback))

\* C19: in a speed-mode session no timer tick changes isFinished; the session
\* becomes Finished only in the step of the inner callback that follows the
\* answer to its last question, and that step leaves the timer alone.
C19_CountUpNeverFinishes ==
    [][(screen = "enhanced" /\ gameMode = "speed" /\ session' = session
            /\ screen' = screen)
          => /\ timeLeft' # timeLeft => isFinished' = isFinished
             /\ (~isFinished /\ isFinished')
                   => \E i \in 1..Len(chains) :
                         /\ FinishGame(i)
                         /\ chains[i].sess = session
                         /\ chains[i].idx = qLen - 1
                         /\ timeLeft' = timeLeft]_vars

\* C19 witness: a speed-mode session finished by its last answer after the
\* count-up timer had ticked
C19_Witness ==
    /\ screen = "enhanced"
    /\ gameMode = "speed"
    /\ isFinished
    /\ timeLeft = MaxSpeedSeconds
    /\ saves = 1
    /\ currentIndex = qLen - 1

\* C20: while a session stays Finished (no restart, no navigation), no step,
\* in particular no delayed advance callback, changes currentIndex, score or
\* selectedOption.
C20_FinishedIgnoresAdvance ==
    [][(Playing /\ isFinished /\ isFinished' /\ session' = session
            /\ screen' = screen)
          => UNCHANGED <<currentIndex, score, selectedOption>>]_vars

\* C21: the inner callback of a chain of the mounted screen, when
\* currentIndex + 1 < qLen, increments currentIndex by exactly 1, clears the
\* selected option and the feedback and leaves the session Active; otherwise
\* it saves the result and sets Finished without changing currentIndex.
C21_AdvanceStep ==
    [][\A i \in 1..Len(chains) :
          (chains[i].live /\ (AdvanceQuestion(i) \/ FinishGame(i)))
            => IF currentIndex + 1 < qLen
               THEN /\ currentIndex' = currentIndex + 1
                    /\ selectedOption' = NoOption
                    /\ feedback' = ""
                    /\ ~showFeedback'
                    /\ ~isFinished'
               ELSE /\ isFinished'
                    /\ currentIndex' = currentIndex
                    /\ Len(storage') = Len(storage) + 1
                    /\ storage'[1].sess = session]_vars

\* C22: a step that schedules a new callback chain (an accepted selection)
\* records an option index of the question, shows the answer (AnswerRevealed),
\* raises score by exactly 1 if the chosen option is correct and leaves it
\* unchanged otherwise, and never changes currentIndex.
C22_SelectStep ==
    [][Len(chains') = Len(chains) + 1
          => /\ selectedOption' \in 0..(NumOptions - 1)
             /\ showFeedback'
             /\ feedback' # ""
             /\ isFinished' = isFinished
             /\ score' = IF chains'[Len(chains')].isCorrect
                          THEN score + 1 ELSE score
             /\ (feedback' = "correct") = chains'[Len(chains')].isCorrect
             /\ currentIndex' = currentIndex]_vars

\* C22 witness: the second question answered wrongly with the third option
\* after a right answer to the first, on the classic screen
C22_Witness ==
    /\ screen = "classic"
    /\ currentIndex = 1
    /\ score = 1
    /\ selectedOption = 2
    /\ showFeedback
    /\ feedback = "wrong"
    /\ Len(chains) = 1
    /\ chains[1].stage = 1

\* C23: in timed and hard mode, within a session, timeLeft changes only by a
\* tick, which takes exactly 1 off and happens only while the session is not
\* Finished, whether an answer is awaited or shown; a step that selects an
\* answer or runs a delayed callback leaves timeLeft as it is.
C23_TickDecrementsByOne ==
    [][(screen = "enhanced" /\ modeSettings.timeLimit # 0
            /\ screen' = screen /\ session' = session)
          => /\ timeLeft' \in {timeLeft, timeLeft - 1}
             /\ timeLeft' # timeLeft
                   => /\ ~isFinished
                      /\ UNCHANGED <<currentIndex, score, selectedOption,
                                     showFeedback, isTransitioning>>
             /\ Len(chains') # Len(chains) => timeLeft' = timeLeft]_vars

\* C23 witness: hard mode, the answer to the second question is shown and the
\* countdown has ticked since it was chosen
C23_Witness ==
    /\ screen = "enhanced"
    /\ gameMode = "hard"
    /\ currentIndex = 1
    /\ showFeedback
    /\ ~isFinished
    /\ Len(chains) = 1
    /\ chains[1].stage = 1
    /\ chains[1].ticks = 1
    /\ timeLeft = 87

\* n!
RECURSIVE Factorial(_)
Factorial(n) == IF n <= 1 THEN 1 ELSE n * Factorial(n - 1)

\* every arrangement of the elements of the sequence a
Arrangements(a) ==
    {[k \in 1..Len(a) |-> a[p[k]]] :
        p \in {f \in [1..Len(a) -> 1..Len(a)] :
                  \A x, y \in 1..Len(a) : f[x] = f[y] => x = y}}

\* what shuffleArray(a) returns, over every outcome of its draws
Outputs(a) == {shuffleArray(a, d).shuffled : d \in DrawsFor(Len(a))}

\* C24: for an array of n distinct elements, shuffleArray takes one draw j in
\* 0..i for each i from n-1 down to 1 (n-1 swaps); over all draw sequences it
\* returns exactly the n! arrangements of the array, a different one for each
\* draw sequence, and each array it returns here is one of them.
C24_FisherYatesBijection ==
    LET n == Len(dataset)
    IN  /\ \A d \in DrawsFor(n) :
              /\ DOMAIN d = 1..(n - 1)
              /\ \A i \in 1..(n - 1) : d[i] \in 0..i
        /\ \A i \in 1..(n - 1) : \A j \in 0..i : \E d \in DrawsFor(n) : d[i] = j
        /\ Outputs(dataset) = Arrangements(dataset)
        /\ Cardinality(Outputs(dataset)) = Factorial(n)
        /\ Cardinality(DrawsFor(n)) = Cardinality(Outputs(dataset))
        /\ shuffled # <<>> => shuffled \in Arrangements(dataset)

\* C24 witness: four questions returned in reverse order
C24_Witness ==
    /\ Len(dataset) = 4
    /\ Len(shuffled) = 4
    /\ \A k \in 1..4 : shuffled[k] = dataset[5 - k]

\* the tier a displayed rating text stands for
TierOf(text) ==
    CASE text = "Perfect!" -> "Perfect"
      [] text = "Excellent!" -> "Excellent"
      [] text \in {"Great!", "Great Job!"} -> "Great"
      [] text \in {"Good!", "Good Work!"} -> "Good"
      [] text \in {"Fair", "Well Done!"} -> "Fair"
      [] text \in {"Practice More", "Practice More!"} -> "Practice More"
      [] OTHER -> text

\* the tiers as stated: 100, >= 90, >= 80, >= 70, >= 60, otherwise
StatedTier(percentage) ==
    IF percentage = 100 THEN "Perfect"
    ELSE IF percentage >= 90 THEN "Excellent"
    ELSE IF percentage >= 80 THEN "Great"
    ELSE IF percentage >= 70 THEN "Good"
    ELSE IF percentage >= 60 THEN "Fair"
    ELSE "Practice More"

\* C25: for the percentage of every stored result the badge of the statistics
\* list and the badge of the history list of Game stand for the stated tier,
\* and so does the rating on the completion screen of Game for the percentage
\* it shows.
C25_RatingTiersAgree ==
    /\ \A k \in 1..Len(storage) :
          /\ TierOf(StatisticsBadge(storage[k].percentage))
                = StatedTier(storage[k].percentage)
          /\ TierOf(HistoryBadge(storage[k].percentage))
                = StatedTier(storage[k].percentage)
    /\ (screen = "classic" /\ isFinished)
          => TierOf(CompletionRating(Percentage(score, qLen)))
                = StatedTier(Percentage(score, qLen))

\* the pending chains scheduled by the mounted game screen
LiveChains == {i \in 1..Len(chains) : chains[i].live}

\* C26: at most one callback chain of the mounted game screen is pending at
\* any time, and a step that schedules a new chain (an accepted selection) is
\* taken only when no chain of this or of an earlier session is pending.
C26_AtMostOneChain ==
    [][/\ Cardinality(LiveChains) <= 1
       /\ Len(chains') = Len(chains) + 1 => LiveChains = {}]_vars

\* C27: within a session on a game screen currentIndex changes only by +1 and
\* score never decreases, so the questions are taken in the order
\* 0, 1, ..., n-1, none skipped and none answered again.
C27_IndexMonotone ==
    [][(Playing /\ screen' = screen /\ session' = session)
          => /\ currentIndex' \in {currentIndex, currentIndex + 1}
             /\ score' >= score]_vars

\* C28: in timed and hard mode timeLeft is within 0..timeLimit; within a
\* session it never increases, and it does not change once the session is
\* Finished, so the time of the result screen, totalTime - timeLeft, is the
\* one at the moment of finishing.
C28_TimeLeftBounded ==
    [][(screen = "enhanced" /\ modeSettings.timeLimit # 0)
          => /\ timeLeft \in 0..modeSettings.timeLimit
             /\ (screen' = screen /\ session' = session)
                   => /\ timeLeft' <= timeLeft
                      /\ timeLeft' \in 0..modeSettings.timeLimit
                      /\ isFinished => UNCHANGED <<timeLeft, totalTime>>]_vars

\* C28 witness: a hard-mode session finished by its last answer after 9
\* seconds, no callback pending
C28_Witness ==
    /\ screen = "enhanced"
    /\ gameMode = "hard"
    /\ isFinished
    /\ saves = 1
    /\ timeLeft = 81
    /\ chains = <<>>

\* C29: the persisted history never holds more than 50 records; every append
\* puts the new record first, followed by earlier records in their order;
\* after an append by the classic screen it holds at most 10 records, and the
\* records it keeps besides the new one are among the 9 newest of the history
\* persisted before the append.
C29_HistoryCaps ==
    [][/\ Len(storage) <= EnhancedCap
       /\ \A i \in 1..Len(chains) :
             FinishGame(i)
               => /\ Len(storage') <= EnhancedCap
                  /\ storage'[1] = GameResult(FinalScore(chains[i]), chains[i].total,
                                              chains[i].mode, chains[i].sess)
                  /\ chains[i].site = "enhanced"
                        => Tail(storage') = Slice(storage, EnhancedCap - 1)
                  /\ chains[i].site = "classic"
                        => /\ Len(storage') <= ClassicCap
                           /\ \A k \in 2..Len(storage') :
                                 \E m \in 1..Min(Len(storage), ClassicCap - 1) :
                                    storage[m] = storage'[k]]_vars

\* C30: a change of gameMode on the mounted EnhancedGameScreen resolves the
\* profile of the new mode and restarts the timer of a mode that has one, and
\* leaves currentIndex, score, selectedOption and isFinished as they were.
C30_ModeChangeKeepsSession ==
    [][(screen = "enhanced" /\ screen' = "enhanced" /\ gameMode' # gameMode)
          => /\ <<modeSettings'.timeLimit, modeSettings'.showTimer,
                   modeSettings'.feedbackDuration>> = TableProfile(gameMode')
             /\ gameMode' \in {"timed", "hard"}
                   => timeLeft' = TableProfile(gameMode')[1]
             /\ gameMode' = "speed" => timeLeft' = 0
             /\ qLen' = NumQuestions
             /\ session' = session
             /\ UNCHANGED <<currentIndex, score, selectedOption, isFinished>>]_vars

\* C30 witness: the classic profile with the second question waiting, one
\* right answer, and 59 seconds left on the timer of the timed mode the
\* session was started in
C30_Witness ==
    /\ screen = "enhanced"
    /\ gameMode = "classic"
    /\ modeSettings.timeLimit = 0
    /\ timeLeft = 59
    /\ totalTime = 60
    /\ currentIndex = 1
    /\ score = 1
    /\ selectedOption = NoOption
    /\ ~isFinished

====
